---------------------------- MODULE Spec2Model ----------------------------
(***************************************************************************)
(* Model of native-sass src/utils.ts: the shorthand expanders (inset,      *)
(* margin/padding, gap), the value classifier, handleSharedStyles,         *)
(* applySharedStyles and the two direct assigners.                         *)
(*                                                                         *)
(* Representation.                                                         *)
(*   - A JavaScript value is a tagged record (Num, Str, Null, ...).        *)
(*   - A string VALUE and a selector key are sequences of one-character    *)
(*     strings, so that the regular expression, split, trim, charAt and    *)
(*     slice are computed character by character.                          *)
(*   - A property name is a TLA+ string; template literals that build      *)
(*     property names are string concatenation.                            *)
(*   - A JavaScript object used as a mapping (a bucket, a result of an     *)
(*     expander, the shared map, nativeStyles) is a function whose DOMAIN  *)
(*     is the set of own keys.                                             *)
(*   - A style declaration block (the `value` of handleSharedStyles) is a  *)
(*     sequence of [prop, val] records: its for-in enumeration order.      *)
(***************************************************************************)
EXTENDS FiniteSets, Integers, Sequences, TLC

VARIABLES call, ret, map, nativeStyles, last, calls

vars == <<call, ret, map, nativeStyles, last, calls>>

(***************************************************************************)
(* Bounds of the model.                                                    *)
(***************************************************************************)
\* longest array handed to an expander
MaxLen == 5
\* number of operations on the shared map / nativeStyles in one behaviour
MaxCalls == 3

(***************************************************************************)
(* JavaScript values.                                                      *)
(***************************************************************************)
Num(n) == [t |-> "number", num |-> n]
Str(s) == [t |-> "string", str |-> s]
Bool(b) == [t |-> "boolean", bool |-> b]
Null == [t |-> "null"]
Undefined == [t |-> "undefined"]
Fn == [t |-> "function"]
Obj(fields) == [t |-> "object", obj |-> fields]
Arr(elems) == [t |-> "array", arr |-> elems]

\* the empty object {} as a mapping
EmptyMapping == <<>>

\* typeof value
typeof(value) ==
  CASE value.t = "number" -> "number"
    [] value.t = "string" -> "string"
    [] value.t = "boolean" -> "boolean"
    [] value.t = "undefined" -> "undefined"
    [] value.t = "function" -> "function"
    [] value.t = "null" -> "object"
    [] value.t = "object" -> "object"
    [] value.t = "array" -> "object"

\* Array.isArray(value)
isArray(value) == value.t = "array"

\* JavaScript truthiness (ToBoolean)
truthy(value) ==
  CASE value.t = "number" -> value.num # 0
    [] value.t = "string" -> Len(value.str) > 0
    [] value.t = "boolean" -> value.bool
    [] value.t = "undefined" -> FALSE
    [] value.t = "null" -> FALSE
    [] OTHER -> TRUE

\* value[name] for a property read: own property of an object, else undefined
getProp(value, name) ==
  IF value.t = "object" /\ name \in DOMAIN value.obj THEN value.obj[name]
  ELSE Undefined

\* array[i] with a 1-based index: undefined past the end (destructuring)
At(elems, i) == IF i \in 1..Len(elems) THEN elems[i] ELSE Undefined

(***************************************************************************)
(* isObject.                                                               *)
(***************************************************************************)
isObject(value) == typeof(value) = "object" /\ ~isArray(value)

(***************************************************************************)
(* The regular expression /^(\d+(\.\d+)?)(%)?$/ on a character sequence.   *)
(***************************************************************************)
Digits == {"0", "1", "2", "3", "4", "5", "6", "7", "8", "9"}

\* \d+ : one or more digits and nothing else
IsDigits(s) == Len(s) >= 1 /\ \A i \in 1..Len(s) : s[i] \in Digits

\* \d+(\.\d+)? : digits, optionally a dot and digits
IsDecimal(s) ==
  \/ IsDigits(s)
  \/ \E i \in 1..Len(s) :
       /\ s[i] = "."
       /\ IsDigits(SubSeq(s, 1, i - 1))
       /\ IsDigits(SubSeq(s, i + 1, Len(s)))

\* the whole pattern: a decimal, optionally followed by one %
MatchesDimensionPattern(s) ==
  \/ IsDecimal(s)
  \/ Len(s) >= 1 /\ s[Len(s)] = "%" /\ IsDecimal(SubSeq(s, 1, Len(s) - 1))

Auto == <<"a", "u", "t", "o">>

\* Variant: any string is taken for a dimension (the pattern test dropped).
isDimensionValueAnyString(value) ==
  \/ typeof(value) = "number"
  \/ typeof(value) = "string"
  \/ value = Null
  \/ truthy(value) /\ typeof(getProp(value, "addListener")) = "function"

(***************************************************************************)
(* isDimensionValue.                                                       *)
(***************************************************************************)
isDimensionValue(value) ==
  \/ typeof(value) = "number"
  \/ value = Str(Auto)
  \/ typeof(value) = "string" /\ MatchesDimensionPattern(value.str)
  \/ value = Null
  \/ truthy(value) /\ typeof(getProp(value, "addListener")) = "function"

\* value.every((i) => isDimensionValue(i))
everyDimensionValue(elems) == \A i \in 1..Len(elems) : isDimensionValue(elems[i])

\* Variant: the elements are tested as dimension values, as in the other expanders.
everyNumberLoose(elems) ==
  \A i \in 1..Len(elems) : typeof(elems[i]) = "number" \/ elems[i] \in {Str(Auto), Null}

\* value.every((i) => typeof i === 'number')
everyNumber(elems) == \A i \in 1..Len(elems) : typeof(elems[i]) = "number"

(***************************************************************************)
(* JSON.stringify, for the values that reach the inset error message:      *)
(* arrays of dimension values.  An undefined or function element of an     *)
(* array prints as null; a function-valued property of an object is        *)
(* omitted, so an animated node prints as {}.  The properties of any other *)
(* object are elided: no such object is an element of a sequence of        *)
(* dimension values.                                                       *)
(***************************************************************************)
RECURSIVE JoinChars(_)
JoinChars(s) == IF Len(s) = 0 THEN "" ELSE Head(s) \o JoinChars(Tail(s))

RECURSIVE JSONstringify(_)
RECURSIVE JSONelements(_)
JSONelements(elems) ==
  IF Len(elems) = 0 THEN ""
  ELSE LET e == Head(elems)
           txt == IF e.t \in {"undefined", "function"} THEN "null" ELSE JSONstringify(e)
       IN IF Len(elems) = 1 THEN txt ELSE txt \o "," \o JSONelements(Tail(elems))

JSONstringify(value) ==
  CASE value.t = "number" -> ToString(value.num)
    [] value.t = "string" -> "\"" \o JoinChars(value.str) \o "\""
    [] value.t = "boolean" -> IF value.bool THEN "true" ELSE "false"
    [] value.t = "null" -> "null"
    [] value.t = "array" -> "[" \o JSONelements(value.arr) \o "]"
    [] value.t = "object" ->
         IF \A k \in DOMAIN value.obj : value.obj[k].t \in {"undefined", "function"}
         THEN "{}" ELSE "{...}"
    [] OTHER -> "undefined"

(***************************************************************************)
(* Outcome of a call: a returned mapping or a thrown Error.  The message   *)
(* of an Error is the sequence of the parts of its template literal: the   *)
(* literal text and each interpolated expression with its value.           *)
(***************************************************************************)
Return(mapping) == [returned |-> mapping]
Throw(message) == [thrown |-> [name |-> "Error", message |-> message]]
Lit(text) == [lit |-> text]
KeyPart(key) == [key |-> key]
LengthPart(n) == [length |-> n]
TypeofPart(value) == [typeof |-> typeof(value)]
JSONPart(value) == [json |-> JSONstringify(value)]

DimensionExpected ==
  ": Expected a number, 'auto', a percentage, or an array with only those values, got "

\* Variant: the destructured names are used as they are, without the fallbacks.
handleShorthandInsetNoInherit(key, value) ==
  IF isDimensionValue(value)
  THEN Return([top |-> value, right |-> value, bottom |-> value, left |-> value])
  ELSE IF isArray(value) /\ everyDimensionValue(value.arr)
  THEN IF Len(value.arr) \in 1..4
       THEN Return([top |-> At(value.arr, 1), right |-> At(value.arr, 2),
                    bottom |-> At(value.arr, 3), left |-> At(value.arr, 4)])
       ELSE Throw(<<Lit("Invalid value for inset: "), JSONPart(value)>>)
  ELSE Throw(<<Lit("Invalid value for "), KeyPart(key), Lit(DimensionExpected),
               TypeofPart(value), Lit(".")>>)

(***************************************************************************)
(* handleShorthandInset.                                                   *)
(***************************************************************************)
handleShorthandInset(key, value) ==
  IF isDimensionValue(value)
  THEN Return([top |-> value, right |-> value, bottom |-> value, left |-> value])
  ELSE IF isArray(value) /\ everyDimensionValue(value.arr)
  THEN LET top == At(value.arr, 1)
           right == At(value.arr, 2)
           bottom == At(value.arr, 3)
           left == At(value.arr, 4)
       IN CASE Len(value.arr) = 1 ->
                 Return([top |-> top, right |-> top, bottom |-> top, left |-> top])
            [] Len(value.arr) = 2 ->
                 Return([top |-> top, right |-> right, bottom |-> top, left |-> right])
            [] Len(value.arr) = 3 ->
                 Return([top |-> top, right |-> right, bottom |-> bottom, left |-> right])
            [] Len(value.arr) = 4 ->
                 Return([top |-> top, right |-> right, bottom |-> bottom, left |-> left])
            [] OTHER ->
                 Throw(<<Lit("Invalid value for inset: "), JSONPart(value)>>)
  ELSE Throw(<<Lit("Invalid value for "), KeyPart(key), Lit(DimensionExpected),
               TypeofPart(value), Lit(".")>>)

\* Variant: a one-element array is split by axis, like a single value.
handleShorthandSpacingAxisSplit(key, value) ==
  IF isDimensionValue(value)
  THEN Return((key \o "Vertical" :> value) @@ (key \o "Horizontal" :> value))
  ELSE IF isArray(value) /\ everyDimensionValue(value.arr)
  THEN LET top == At(value.arr, 1)
           right == At(value.arr, 2)
           bottom == At(value.arr, 3)
           left == At(value.arr, 4)
       IN CASE Len(value.arr) = 1 ->
                 Return((key \o "Vertical" :> top) @@ (key \o "Horizontal" :> top))
            [] Len(value.arr) = 2 ->
                 Return((key \o "Vertical" :> top) @@ (key \o "Horizontal" :> right))
            [] Len(value.arr) = 3 ->
                 Return((key \o "Top" :> top) @@ (key \o "Horizontal" :> right)
                        @@ (key \o "Bottom" :> bottom))
            [] Len(value.arr) = 4 ->
                 Return((key \o "Top" :> top) @@ (key \o "Right" :> right)
                        @@ (key \o "Bottom" :> bottom) @@ (key \o "Left" :> left))
            [] OTHER ->
                 Throw(<<Lit("Invalid "), KeyPart(key),
                         Lit(" array length: Expected 1, 2, 3, or 4, got "),
                         LengthPart(Len(value.arr)), Lit(".")>>)
  ELSE Throw(<<Lit("Invalid value for "), KeyPart(key), Lit(DimensionExpected),
               TypeofPart(value), Lit(".")>>)

(***************************************************************************)
(* handleShorthandSpacing.                                                 *)
(***************************************************************************)
handleShorthandSpacing(key, value) ==
  IF isDimensionValue(value)
  THEN Return((key \o "Vertical" :> value) @@ (key \o "Horizontal" :> value))
  ELSE IF isArray(value) /\ everyDimensionValue(value.arr)
  THEN LET top == At(value.arr, 1)
           right == At(value.arr, 2)
           bottom == At(value.arr, 3)
           left == At(value.arr, 4)
       IN CASE Len(value.arr) = 1 ->
                 Return(key :> top)
            [] Len(value.arr) = 2 ->
                 Return((key \o "Vertical" :> top) @@ (key \o "Horizontal" :> right))
            [] Len(value.arr) = 3 ->
                 Return((key \o "Top" :> top) @@ (key \o "Horizontal" :> right)
                        @@ (key \o "Bottom" :> bottom))
            [] Len(value.arr) = 4 ->
                 Return((key \o "Top" :> top) @@ (key \o "Right" :> right)
                        @@ (key \o "Bottom" :> bottom) @@ (key \o "Left" :> left))
            [] OTHER ->
                 Throw(<<Lit("Invalid "), KeyPart(key),
                         Lit(" array length: Expected 1, 2, 3, or 4, got "),
                         LengthPart(Len(value.arr)), Lit(".")>>)
  ELSE Throw(<<Lit("Invalid value for "), KeyPart(key), Lit(DimensionExpected),
               TypeofPart(value), Lit(".")>>)

\* Variant: the switch has no default; any longer array is read as [row, column].
handleShorthandGapNoDefault(key, value) ==
  IF typeof(value) = "number"
  THEN Return([gap |-> value])
  ELSE IF isArray(value) /\ everyNumber(value.arr)
  THEN IF Len(value.arr) = 1
       THEN Return([gap |-> At(value.arr, 1)])
       ELSE Return([rowGap |-> At(value.arr, 1), columnGap |-> At(value.arr, 2)])
  ELSE Throw(<<Lit("Invalid value for "), KeyPart(key),
               Lit(": Expected a number or an array of numbers, got "),
               TypeofPart(value), Lit(".")>>)

(***************************************************************************)
(* handleShorthandGap.                                                     *)
(***************************************************************************)
handleShorthandGap(key, value) ==
  IF typeof(value) = "number"
  THEN Return([gap |-> value])
  ELSE IF isArray(value) /\ everyNumber(value.arr)
  THEN LET row == At(value.arr, 1)
           column == At(value.arr, 2)
       IN CASE Len(value.arr) = 1 ->
                 Return([gap |-> row])
            [] Len(value.arr) = 2 ->
                 Return([rowGap |-> row, columnGap |-> column])
            [] OTHER ->
                 Throw(<<Lit("Invalid gap array length: Expected 1 or 2, got "),
                         LengthPart(Len(value.arr)), Lit(".")>>)
  ELSE Throw(<<Lit("Invalid value for "), KeyPart(key),
               Lit(": Expected a number or an array of numbers, got "),
               TypeofPart(value), Lit(".")>>)

(***************************************************************************)
(* ignoredKeys, specialShorthandKeys, shorthandHandlers.                   *)
(***************************************************************************)
ignoredKeys == {"shadowOffset"}

\* Variant: inset is missing from the list.
specialShorthandKeysNoInset == {"margin", "padding", "gap"}

specialShorthandKeys == {"inset", "margin", "padding", "gap"}

\* shorthandHandlers[prop](key, value)
shorthandHandlers(prop, key, value) ==
  CASE prop = "inset" -> handleShorthandInset(key, value)
    [] prop = "margin" -> handleShorthandSpacing(key, value)
    [] prop = "padding" -> handleShorthandSpacing(key, value)
    [] prop = "gap" -> handleShorthandGap(key, value)

(***************************************************************************)
(* String operations on character sequences.                               *)
(***************************************************************************)
UpperOf ==
  [a |-> "A", b |-> "B", c |-> "C", d |-> "D", e |-> "E", f |-> "F", g |-> "G",
   h |-> "H", i |-> "I", j |-> "J", k |-> "K", l |-> "L", m |-> "M", n |-> "N",
   o |-> "O", p |-> "P", q |-> "Q", r |-> "R", s |-> "S", t |-> "T", u |-> "U",
   v |-> "V", w |-> "W", x |-> "X", y |-> "Y", z |-> "Z"]

\* String.prototype.toUpperCase on one character
toUpperCase(ch) == IF ch \in DOMAIN UpperOf THEN UpperOf[ch] ELSE ch

\* Variant: every character is upper-cased, not the first alone.
capitalizeAll(str) == [i \in 1..Len(str) |-> toUpperCase(str[i])]

\* str.charAt(0).toUpperCase() + str.slice(1)
capitalize(str) ==
  (IF Len(str) = 0 THEN <<>> ELSE <<toUpperCase(str[1])>>) \o SubSeq(str, 2, Len(str))

Whitespace == {" ", "\t", "\n", "\r"}

RECURSIVE trimStart(_)
trimStart(s) ==
  IF Len(s) > 0 /\ Head(s) \in Whitespace THEN trimStart(Tail(s)) ELSE s

RECURSIVE trimEnd(_)
trimEnd(s) ==
  IF Len(s) > 0 /\ s[Len(s)] \in Whitespace THEN trimEnd(SubSeq(s, 1, Len(s) - 1)) ELSE s

\* String.prototype.trim
trim(s) == trimEnd(trimStart(s))

\* key.split(',')
RECURSIVE split(_)
split(s) ==
  IF \E i \in 1..Len(s) : s[i] = ","
  THEN LET i == CHOOSE j \in 1..Len(s) : s[j] = "," /\ \A h \in 1..(j - 1) : s[h] # ","
       IN <<SubSeq(s, 1, i - 1)>> \o split(SubSeq(s, i + 1, Len(s)))
  ELSE <<s>>

\* key.split(',').map((s) => s.trim())
selectorsOf(key) ==
  LET parts == split(key)
  IN [i \in 1..Len(parts) |-> trim(parts[i])]

\* parentKey ? `${parentKey}${capitalize(selector)}` : selector
scopedKeyOf(parentKey, selector) ==
  IF Len(parentKey) > 0 THEN parentKey \o capitalize(selector) ELSE selector

(***************************************************************************)
(* Object writes.                                                          *)
(***************************************************************************)
\* Object.assign(target, source): source wins on a shared key
ObjectAssign(target, source) == source @@ target

\* target[key] = value
SetProp(target, key, value) == (key :> value) @@ target

\* if (!target[key]) target[key] = {}   (a bucket, once present, is truthy)
EnsureBucket(target, key) ==
  IF key \in DOMAIN target THEN target ELSE (key :> EmptyMapping) @@ target

(***************************************************************************)
(* handleSharedStyles.  The result is the shared map as the call leaves    *)
(* it, with the Error when an expander threw (the exception leaves the     *)
(* loops at once; what was written before stays written).                  *)
(***************************************************************************)
\* Variant: a property whose expander throws is skipped and the loop goes on;
\* the first Error is rethrown when the loop is over.
RECURSIVE forPropsSkip(_, _, _)
forPropsSkip(bucket, value, i) ==
  IF i > Len(value) THEN [bucket |-> bucket]
  ELSE LET prop == value[i].prop
           val == value[i].val
       IN IF prop \in specialShorthandKeys
          THEN LET r == shorthandHandlers(prop, prop, val)
               IN IF "thrown" \in DOMAIN r
                  THEN [bucket |-> forPropsSkip(bucket, value, i + 1).bucket,
                        thrown |-> r.thrown]
                  ELSE forPropsSkip(ObjectAssign(bucket, r.returned), value, i + 1)
          ELSE forPropsSkip(SetProp(bucket, prop, val), value, i + 1)

\* the for-in loop over value, from its i-th property on, on one bucket
RECURSIVE forProps(_, _, _)
forProps(bucket, value, i) ==
  IF i > Len(value) THEN [bucket |-> bucket]
  ELSE LET prop == value[i].prop
           val == value[i].val
       IN IF prop \in specialShorthandKeys
          THEN LET r == shorthandHandlers(prop, prop, val)
               IN IF "thrown" \in DOMAIN r
                  THEN [bucket |-> bucket, thrown |-> r.thrown]
                  ELSE forProps(ObjectAssign(bucket, r.returned), value, i + 1)
          ELSE forProps(SetProp(bucket, prop, val), value, i + 1)

\* selectors.forEach, from the i-th selector on
RECURSIVE forEachSelector(_, _, _, _, _)
forEachSelector(selectors, i, parentKey, value, m) ==
  IF i > Len(selectors) THEN [map |-> m]
  ELSE LET scopedKey == scopedKeyOf(parentKey, selectors[i])
           m1 == EnsureBucket(m, scopedKey)
           r == forProps(m1[scopedKey], value, 1)
           m2 == SetProp(m1, scopedKey, r.bucket)
       IN IF "thrown" \in DOMAIN r
          THEN [map |-> m2, thrown |-> r.thrown]
          ELSE forEachSelector(selectors, i + 1, parentKey, value, m2)

handleSharedStyles(key, parentKey, value, m) ==
  forEachSelector(selectorsOf(key), 1, parentKey, value, m)

(***************************************************************************)
(* assignFlatStyle, assignIgnoredKeyStyle, applySharedStyles.              *)
(***************************************************************************)
\* Variant: the bucket is replaced by one holding the new property alone.
assignFlatStyleFreshBucket(styles, parentKey, key, value) ==
  SetProp(styles, parentKey, (key :> value))

assignFlatStyle(styles, parentKey, key, value) ==
  LET s1 == EnsureBucket(styles, parentKey)
  IN SetProp(s1, parentKey, SetProp(s1[parentKey], key, value))

assignIgnoredKeyStyle(styles, parentKey, key, value) ==
  LET s1 == EnsureBucket(styles, parentKey)
  IN SetProp(s1, parentKey, SetProp(s1[parentKey], key, value))

\* Variant: the bucket is replaced by the shared entry, not merged with it.
applyOneReplace(styles, sharedStylesMap, selector) ==
  SetProp(styles, selector, sharedStylesMap[selector])

\* one iteration of the for-in loop, for one selector of sharedStylesMap
applyOne(styles, sharedStylesMap, selector) ==
  LET s1 == EnsureBucket(styles, selector)
  IN SetProp(s1, selector, ObjectAssign(s1[selector], sharedStylesMap[selector]))

\* the for-in loop over the selectors not yet visited
RECURSIVE applyLoop(_, _, _)
applyLoop(styles, sharedStylesMap, todo) ==
  IF todo = {} THEN styles
  ELSE LET selector == CHOOSE s \in todo : TRUE
       IN applyLoop(applyOne(styles, sharedStylesMap, selector), sharedStylesMap,
                    todo \ {selector})

applySharedStyles(styles, sharedStylesMap) ==
  applyLoop(styles, sharedStylesMap, DOMAIN sharedStylesMap)

(***************************************************************************)
(* Inputs.                                                                 *)
(***************************************************************************)
\* an Animated.AnimatedNode: an object with a callable addListener
AnimatedNode == Obj([addListener |-> Fn])

\* a compound value, as given for shadowOffset
ShadowOffset == Obj([width |-> Num(1), height |-> Num(2)])

Red == Str(<<"r", "e", "d">>)

\* scalars that pass isDimensionValue
ValidScalars ==
  {Num(0), Num(5), Num(10), Str(Auto), Str(<<"1", "5", "%">>), Str(<<"2", ".", "5">>),
   Str(<<"1", "0", ".", "5", "%">>), Str(<<"7">>), Null, AnimatedNode}

\* values that are neither dimension values nor arrays
InvalidScalars ==
  {Str(<<>>), Str(<<"a", "b", "c">>), Str(<<"1", "0", "p", "x">>), Str(<<".", "5">>),
   Str(<<"5", ".">>), Str(<<"%">>), Str(<<"5", "%", "%">>), Str(<<"-", "5">>),
   Str(<<"1", ".", "2", ".", "3">>), Str(<<"A", "u", "t", "o">>), Str(<<" ", "5">>),
   Undefined, Bool(TRUE), Bool(FALSE), Fn, ShadowOffset, Obj(EmptyMapping),
   Obj([addListener |-> Num(1)])}

\* elements of the arrays handed to the expanders
Elements == {Num(5), Num(10), Str(Auto), Null, Str(<<"a", "b", "c">>)}

RECURSIVE SeqsUpTo(_, _)
SeqsUpTo(S, n) ==
  IF n = 0 THEN {<<>>}
  ELSE LET shorter == SeqsUpTo(S, n - 1)
       IN shorter \cup {Append(q, e) : q \in {x \in shorter : Len(x) = n - 1}, e \in S}

Arrays == {Arr(q) : q \in SeqsUpTo(Elements, MaxLen)}

ExpanderValues == ValidScalars \cup InvalidScalars \cup Arrays

ExpanderCalls ==
  [fn : specialShorthandKeys, key : specialShorthandKeys, value : ExpanderValues]

TitleSubtitle ==
  <<"t", "i", "t", "l", "e", ",", " ", "s", "u", "b", "t", "i", "t", "l", "e">>
BoxBox == <<" ", "b", "o", "x", " ", ",", "b", "o", "x">>
Card == <<"c", "a", "r", "d">>
CardTitle == <<"c", "a", "r", "d", "T", "i", "t", "l", "e">>
CardSubtitle == <<"c", "a", "r", "d", "S", "u", "b", "t", "i", "t", "l", "e">>

SelectorKeys == {TitleSubtitle, BoxBox}
ParentKeys == {<<>>, Card}

P(prop, val) == [prop |-> prop, val |-> val]

\* declaration blocks whose shorthands are all valid
ValidBlocks ==
  {<<P("inset", Num(5)), P("top", Num(10)), P("gap", Num(5))>>,
   <<P("top", Num(10)), P("inset", Arr(<<Num(5), Num(10), Str(Auto)>>)),
     P("margin", Arr(<<Num(5)>>))>>,
   <<P("color", Red), P("padding", Arr(<<Num(5), Num(10)>>)),
     P("gap", Arr(<<Num(5), Num(10)>>)), P("shadowOffset", ShadowOffset)>>}

\* declaration blocks with a shorthand that its expander rejects
InvalidBlocks ==
  {<<P("color", Red), P("margin", Str(<<"a", "b", "c">>)), P("top", Num(5))>>,
   <<P("inset", Num(10)), P("gap", Arr(<<Num(5), Num(10), Num(5)>>)), P("color", Red)>>}

Blocks == ValidBlocks \cup InvalidBlocks

AssignParentKeys == {CardTitle}
\* a plain property that happens to bear a shorthand name
AssignKeys == {"inset"}
AssignValues == {Arr(<<Num(5), Num(10)>>), ShadowOffset}

(***************************************************************************)
(* State.  call/ret: one call of an expander and its outcome.  map: the    *)
(* Shared Style Map.  nativeStyles: the Flat Style Mapping.  last: the     *)
(* operation that produced the current state, with its arguments and the   *)
(* Error it threw, if any.  calls: the number of operations so far.        *)
(***************************************************************************)
NoCall == [fn |-> "none"]
Pending == [pending |-> TRUE]
Start == [op |-> "start"]

Init ==
  /\ call = NoCall
  /\ ret = Pending
  /\ map = EmptyMapping
  /\ nativeStyles = EmptyMapping
  /\ last = Start
  /\ calls = 0

InitExpand ==
  /\ call \in ExpanderCalls
  /\ ret = Pending
  /\ map = EmptyMapping
  /\ nativeStyles = EmptyMapping
  /\ last = Start
  /\ calls = 0

(***************************************************************************)
(* Operations.                                                             *)
(***************************************************************************)
\* shorthandHandlers.inset(key, value)
ExpandInset ==
  /\ call.fn = "inset"
  /\ ret = Pending
  /\ ret' = shorthandHandlers("inset", call.key, call.value)
  /\ UNCHANGED <<call, map, nativeStyles, last, calls>>

\* shorthandHandlers.margin(key, value), shorthandHandlers.padding(key, value)
ExpandSpacing ==
  /\ call.fn \in {"margin", "padding"}
  /\ ret = Pending
  /\ ret' = shorthandHandlers(call.fn, call.key, call.value)
  /\ UNCHANGED <<call, map, nativeStyles, last, calls>>

\* shorthandHandlers.gap(key, value)
ExpandGap ==
  /\ call.fn = "gap"
  /\ ret = Pending
  /\ ret' = shorthandHandlers("gap", call.key, call.value)
  /\ UNCHANGED <<call, map, nativeStyles, last, calls>>

HandleSharedStyles(key, parentKey, value) ==
  /\ calls < MaxCalls
  /\ LET r == handleSharedStyles(key, parentKey, value, map)
     IN /\ map' = r.map
        /\ last' = [op |-> "handleSharedStyles", key |-> key, parentKey |-> parentKey,
                    value |-> value,
                    outcome |-> IF "thrown" \in DOMAIN r THEN [thrown |-> r.thrown]
                                ELSE [completed |-> TRUE]]
  /\ calls' = calls + 1
  /\ UNCHANGED <<call, ret, nativeStyles>>

ApplySharedStyles ==
  /\ calls < MaxCalls
  /\ nativeStyles' = applySharedStyles(nativeStyles, map)
  /\ last' = [op |-> "applySharedStyles"]
  /\ calls' = calls + 1
  /\ UNCHANGED <<call, ret, map>>

AssignFlatStyle(parentKey, key, value) ==
  /\ calls < MaxCalls
  /\ nativeStyles' = assignFlatStyle(nativeStyles, parentKey, key, value)
  /\ last' = [op |-> "assignFlatStyle", parentKey |-> parentKey, key |-> key,
              value |-> value]
  /\ calls' = calls + 1
  /\ UNCHANGED <<call, ret, map>>

AssignIgnoredKeyStyle(parentKey, key, value) ==
  /\ calls < MaxCalls
  /\ nativeStyles' = assignIgnoredKeyStyle(nativeStyles, parentKey, key, value)
  /\ last' = [op |-> "assignIgnoredKeyStyle", parentKey |-> parentKey, key |-> key,
              value |-> value]
  /\ calls' = calls + 1
  /\ UNCHANGED <<call, ret, map>>

\* the shared-selector path alone, with valid shorthand values only
NextShared ==
  \/ \E key \in SelectorKeys, parentKey \in ParentKeys, value \in ValidBlocks :
       HandleSharedStyles(key, parentKey, value)
  \/ ApplySharedStyles

Next ==
  \/ \E key \in SelectorKeys, parentKey \in ParentKeys, value \in Blocks :
       HandleSharedStyles(key, parentKey, value)
  \/ ApplySharedStyles
  \/ \E parentKey \in AssignParentKeys, key \in AssignKeys, value \in AssignValues :
       AssignFlatStyle(parentKey, key, value)
  \/ \E parentKey \in AssignParentKeys, key \in ignoredKeys, value \in AssignValues :
       AssignIgnoredKeyStyle(parentKey, key, value)

NextExpand == ExpandInset \/ ExpandSpacing \/ ExpandGap

Spec == Init /\ [][Next]_vars

SpecShared == Init /\ [][NextShared]_vars

SpecExpand == InitExpand /\ [][NextExpand]_vars

(***************************************************************************)
(* Vocabulary of the properties below.                                     *)
(***************************************************************************)
Returned == "returned" \in DOMAIN ret
Threw == "thrown" \in DOMAIN ret

\* the scalars of the inputs that are Dimension Values by definition: a
\* number, "auto", digits with optional fraction and optional %, null, or an
\* object with a callable addListener
DimensionValues == ValidScalars
DimensionElements == {Num(5), Num(10), Str(Auto), Null}
NumberValues == {Num(0), Num(5), Num(10)}

IsSeqOf(value, S) == value.t = "array" /\ \A i \in 1..Len(value.arr) : value.arr[i] \in S

\* an error of the InvalidShorthandValue shape: its text begins "Invalid value for"
IsInvalidShorthandValue(error) ==
  error.message[1] \in {[lit |-> "Invalid value for "], [lit |-> "Invalid value for inset: "]}

\* the error names the key `key`, as interpolated or as literal text
NamesKey(error, key) ==
  \E i \in 1..Len(error.message) :
    \/ error.message[i] = [key |-> key]
    \/ error.message[i] = [lit |-> "Invalid value for " \o key \o ": "]
    \/ error.message[i] = [lit |-> "Invalid " \o key \o " array length: Expected 1 or 2, got "]

\* the error states the lengths it expected
NamesExpected(error, text) ==
  \E i \in 1..Len(error.message) :
    error.message[i] \in {[lit |-> " array length: Expected " \o text \o ", got "],
                          [lit |-> "Invalid gap array length: Expected " \o text \o ", got "]}

\* an error of the InvalidShorthandLength shape: not an "Invalid value" error,
\* and carrying the expected lengths and the actual length n
IsInvalidShorthandLength(error, text, n) ==
  /\ ~IsInvalidShorthandValue(error)
  /\ NamesExpected(error, text)
  /\ \E i \in 1..Len(error.message) : error.message[i] = [length |-> n]

(***************************************************************************)
(* C1.  handleShorthandInset gives a single Dimension Value to all four    *)
(* sides, and a sequence of 1 to 4 Dimension Values by CSS corner          *)
(* inheritance: right falls back to top, bottom to top, left to right.     *)
(* The result has exactly the keys top, right, bottom, left.               *)
(***************************************************************************)
InsetOf(a) ==
  LET n == Len(a)
      r == IF n >= 2 THEN a[2] ELSE a[1]
  IN [top |-> a[1], right |-> r,
      bottom |-> IF n >= 3 THEN a[3] ELSE a[1],
      left |-> IF n >= 4 THEN a[4] ELSE r]

C1_InsetExpansion ==
  (call.fn = "inset" /\ ret # Pending) =>
    /\ call.value \in DimensionValues =>
         /\ Returned
         /\ ret.returned = [s \in {"top", "right", "bottom", "left"} |-> call.value]
    /\ (IsSeqOf(call.value, DimensionElements) /\ Len(call.value.arr) \in 1..4) =>
         /\ Returned
         /\ ret.returned = InsetOf(call.value.arr)
    /\ Returned => DOMAIN ret.returned = {"top", "right", "bottom", "left"}

C1_Witness ==
  /\ call = [fn |-> "inset", key |-> "inset",
             value |-> Arr(<<Num(5), Num(10), Str(Auto)>>)]
  /\ ret = Return([top |-> Num(5), right |-> Num(10), bottom |-> Str(Auto),
                   left |-> Num(10)])

(***************************************************************************)
(* C2.  handleShorthandSpacing, for key margin or padding: a single        *)
(* Dimension Value gives {keyVertical, keyHorizontal}; [a] gives the bare  *)
(* {key: a}; [a,b] gives {keyVertical: a, keyHorizontal: b}; [a,b,c] gives *)
(* {keyTop: a, keyHorizontal: b, keyBottom: c}; [a,b,c,d] gives            *)
(* {keyTop, keyRight, keyBottom, keyLeft}.  No other key appears.          *)
(***************************************************************************)
SpacingNames ==
  [margin |-> [Bare |-> "margin", Vertical |-> "marginVertical",
               Horizontal |-> "marginHorizontal", Top |-> "marginTop",
               Right |-> "marginRight", Bottom |-> "marginBottom",
               Left |-> "marginLeft"],
   padding |-> [Bare |-> "padding", Vertical |-> "paddingVertical",
                Horizontal |-> "paddingHorizontal", Top |-> "paddingTop",
                Right |-> "paddingRight", Bottom |-> "paddingBottom",
                Left |-> "paddingLeft"]]

SpacingOf(key, a) ==
  LET N == SpacingNames[key]
  IN CASE Len(a) = 1 -> (N.Bare :> a[1])
       [] Len(a) = 2 -> (N.Vertical :> a[1]) @@ (N.Horizontal :> a[2])
       [] Len(a) = 3 -> (N.Top :> a[1]) @@ (N.Horizontal :> a[2]) @@ (N.Bottom :> a[3])
       [] Len(a) = 4 -> (N.Top :> a[1]) @@ (N.Right :> a[2]) @@ (N.Bottom :> a[3])
                        @@ (N.Left :> a[4])

C2_SpacingExpansion ==
  (call.fn \in {"margin", "padding"} /\ call.key \in {"margin", "padding"}
   /\ ret # Pending) =>
    /\ call.value \in DimensionValues =>
         /\ Returned
         /\ ret.returned = (SpacingNames[call.key].Vertical :> call.value)
                           @@ (SpacingNames[call.key].Horizontal :> call.value)
    /\ (IsSeqOf(call.value, DimensionElements) /\ Len(call.value.arr) \in 1..4) =>
         /\ Returned
         /\ ret.returned = SpacingOf(call.key, call.value.arr)

C2_Witness ==
  /\ call = [fn |-> "padding", key |-> "padding",
             value |-> Arr(<<Num(5), Num(10), Str(Auto)>>)]
  /\ ret = Return([paddingTop |-> Num(5), paddingHorizontal |-> Num(10),
                   paddingBottom |-> Str(Auto)])

(***************************************************************************)
(* C3.  handleShorthandGap gives {gap: n} for a number n, {gap: r} for     *)
(* [r] and {rowGap: r, columnGap: c} for [r, c], r and c numbers; a        *)
(* sequence with an element that is not a number is rejected.              *)
(***************************************************************************)
C3_GapExpansion ==
  (call.fn = "gap" /\ ret # Pending) =>
    /\ call.value \in NumberValues => ret = Return([gap |-> call.value])
    /\ (IsSeqOf(call.value, NumberValues) /\ Len(call.value.arr) = 1) =>
         ret = Return([gap |-> call.value.arr[1]])
    /\ (IsSeqOf(call.value, NumberValues) /\ Len(call.value.arr) = 2) =>
         ret = Return([rowGap |-> call.value.arr[1], columnGap |-> call.value.arr[2]])
    /\ (call.value.t = "array" /\ ~IsSeqOf(call.value, NumberValues)) => Threw

C3_Witness ==
  /\ call = [fn |-> "gap", key |-> "gap", value |-> Arr(<<Num(5), Num(10)>>)]
  /\ ret = Return([rowGap |-> Num(5), columnGap |-> Num(10)])

(***************************************************************************)
(* C4 as claimed.  Every expander, given a sequence of valid elements      *)
(* whose length it does not support (inset, margin, padding: not 1-4;      *)
(* gap: not 1-2), fails with an InvalidShorthandLength error carrying the  *)
(* expected lengths and the actual length, distinct from                   *)
(* InvalidShorthandValue.                                                  *)
(***************************************************************************)
BadLengthCall ==
  /\ ret # Pending
  /\ \/ call.fn \in {"inset", "margin", "padding"}
        /\ IsSeqOf(call.value, DimensionElements) /\ Len(call.value.arr) \notin 1..4
     \/ call.fn = "gap"
        /\ IsSeqOf(call.value, NumberValues) /\ Len(call.value.arr) \notin 1..2

ExpectedText == IF call.fn = "gap" THEN "1 or 2" ELSE "1, 2, 3, or 4"

C4_LengthErrorEverywhere ==
  BadLengthCall =>
    /\ Threw
    /\ IsInvalidShorthandLength(ret.thrown, ExpectedText, Len(call.value.arr))

(***************************************************************************)
(* C4 as amended.  Given such a sequence every expander fails.  margin,    *)
(* padding and gap fail with a length error that carries the expected      *)
(* lengths and the actual length (margin/padding name the key passed in,   *)
(* gap names "gap").  inset fails with "Invalid value for inset: <JSON of  *)
(* the sequence>", which names inset and the received value and carries    *)
(* neither the expected lengths nor the actual length.                     *)
(***************************************************************************)
C4_LengthErrors ==
  BadLengthCall =>
    /\ Threw
    /\ ~Returned
    /\ call.fn \in {"margin", "padding"} =>
         /\ IsInvalidShorthandLength(ret.thrown, "1, 2, 3, or 4", Len(call.value.arr))
         /\ NamesKey(ret.thrown, call.key)
    /\ call.fn = "gap" =>
         /\ IsInvalidShorthandLength(ret.thrown, "1 or 2", Len(call.value.arr))
         /\ NamesKey(ret.thrown, "gap")
    /\ call.fn = "inset" =>
         /\ IsInvalidShorthandValue(ret.thrown)
         /\ NamesKey(ret.thrown, "inset")
         /\ \E i \in 1..Len(ret.thrown.message) : "json" \in DOMAIN ret.thrown.message[i]
         /\ \A i \in 1..Len(ret.thrown.message) : "length" \notin DOMAIN ret.thrown.message[i]

C4_Witness ==
  /\ call = [fn |-> "inset", key |-> "inset",
             value |-> Arr(<<Num(5), Num(10), Num(5), Num(10), Num(5)>>)]
  /\ ret = Throw(<<[lit |-> "Invalid value for inset: "], [json |-> "[5,10,5,10,5]"]>>)

(***************************************************************************)
(* C5.  A shorthand value that fails classification is a hard error:       *)
(* inset, margin and padding fail with InvalidShorthandValue naming the    *)
(* key passed in for every value that is neither a Dimension Value nor a   *)
(* sequence of Dimension Values, and accept every Dimension Value; gap     *)
(* fails with InvalidShorthandValue for every value that is neither a      *)
(* number nor a sequence of numbers.  A failing call returns no mapping.   *)
(***************************************************************************)
C5_InvalidValueRejected ==
  (ret # Pending) =>
    /\ (call.fn \in {"inset", "margin", "padding"}
        /\ call.value \notin DimensionValues
        /\ ~IsSeqOf(call.value, DimensionElements)) =>
         /\ Threw
         /\ ~Returned
         /\ IsInvalidShorthandValue(ret.thrown)
         /\ [key |-> call.key] = ret.thrown.message[2]
    /\ (call.fn \in {"inset", "margin", "padding"} /\ call.value \in DimensionValues) =>
         Returned
    /\ (call.fn = "gap"
        /\ call.value \notin NumberValues
        /\ ~IsSeqOf(call.value, NumberValues)) =>
         /\ Threw
         /\ ~Returned
         /\ IsInvalidShorthandValue(ret.thrown)

C5_Witness ==
  /\ call = [fn |-> "margin", key |-> "margin", value |-> Str(<<"1", "0", "p", "x">>)]
  /\ Threw
  /\ ret.thrown.message[4] = [typeof |-> "string"]

(***************************************************************************)
(* Vocabulary of the properties of the shared map and of nativeStyles.     *)
(***************************************************************************)
Subtitle == <<"s", "u", "b", "t", "i", "t", "l", "e">>
TitleKey == <<"t", "i", "t", "l", "e">>
Box == <<"b", "o", "x">>
CardBox == <<"c", "a", "r", "d", "B", "o", "x">>

\* the trimmed comma-separated segments of the selector keys of the inputs
SegmentsOf(key) == IF key = TitleSubtitle THEN <<TitleKey, Subtitle>> ELSE <<Box, Box>>

\* the scoped key of a segment: parentKey + segment with its first character
\* upper-cased, or the bare segment without a parent
ScopedOf(parentKey, segment) ==
  IF parentKey = <<>> THEN segment
  ELSE CASE segment = TitleKey -> CardTitle
         [] segment = Subtitle -> CardSubtitle
         [] segment = Box -> CardBox

ShorthandNames == {"inset", "margin", "padding", "gap"}

\* what one property of a declaration block writes: itself, or its expansion
Contribution(pv) ==
  IF pv.prop \in ShorthandNames
  THEN shorthandHandlers(pv.prop, pv.prop, pv.val).returned
  ELSE (pv.prop :> pv.val)

\* the bucket prev after the first n properties of block, by last writer
Overwritten(prev, block, n) ==
  LET contrib == [i \in 1..n |-> Contribution(block[i])]
      written == UNION {DOMAIN contrib[i] : i \in 1..n}
      writers(name) == {i \in 1..n : name \in DOMAIN contrib[i]}
      lastWriter(name) == CHOOSE i \in writers(name) : \A j \in writers(name) : j <= i
  IN [name \in DOMAIN prev \cup written |->
        IF name \in written THEN contrib[lastWriter(name)][name] ELSE prev[name]]

BucketOf(m, k) == IF k \in DOMAIN m THEN m[k] ELSE EmptyMapping

\* the first property of the block that its expander rejects
Offending(block) ==
  CHOOSE i \in 1..Len(block) :
    /\ block[i].prop \in ShorthandNames
    /\ "thrown" \in DOMAIN shorthandHandlers(block[i].prop, block[i].prop, block[i].val)
    /\ \A j \in 1..(i - 1) :
         block[j].prop \in ShorthandNames =>
           "returned" \in DOMAIN shorthandHandlers(block[j].prop, block[j].prop, block[j].val)

(***************************************************************************)
(* C6.  A handleSharedStyles call whose shorthands are all valid           *)
(* completes, and for every trimmed segment of key the scoped bucket       *)
(* exists afterwards and equals its previous content overwritten, in       *)
(* enumeration order, by each plain property and by the expansion of each  *)
(* shorthand property (a later property wins a name conflict).             *)
(***************************************************************************)
C6_SharedStylesScoping ==
  [][(last'.op = "handleSharedStyles" /\ last'.value \in ValidBlocks) =>
       /\ last'.outcome = [completed |-> TRUE]
       /\ \A i \in 1..Len(SegmentsOf(last'.key)) :
            LET k == ScopedOf(last'.parentKey, SegmentsOf(last'.key)[i])
            IN /\ k \in DOMAIN map'
               /\ map'[k] = Overwritten(BucketOf(map, k), last'.value, Len(last'.value))]_vars

C6_Witness ==
  /\ last.op = "handleSharedStyles"
  /\ last.key = TitleSubtitle
  /\ last.parentKey = Card
  /\ last.value = <<P("inset", Num(5)), P("top", Num(10)), P("gap", Num(5))>>
  /\ DOMAIN map = {CardTitle, CardSubtitle}
  /\ map[CardTitle] = [top |-> Num(10), right |-> Num(5), bottom |-> Num(5),
                       left |-> Num(5), gap |-> Num(5)]
  /\ map[CardSubtitle] = map[CardTitle]

(***************************************************************************)
(* C7.  applySharedStyles merges per selector, last write wins: every      *)
(* selector of the shared map has a bucket holding every shared property   *)
(* with the shared value; the other properties of that bucket and the      *)
(* buckets of other selectors are unchanged; the shared map is unchanged;  *)
(* applying the same shared map again changes nothing.                     *)
(***************************************************************************)
C7_ApplyMerges ==
  [][last'.op = "applySharedStyles" =>
       /\ map' = map
       /\ DOMAIN nativeStyles' = DOMAIN nativeStyles \cup DOMAIN map
       /\ \A s \in DOMAIN map :
            /\ DOMAIN nativeStyles'[s] = DOMAIN BucketOf(nativeStyles, s) \cup DOMAIN map[s]
            /\ \A name \in DOMAIN map[s] : nativeStyles'[s][name] = map[s][name]
            /\ \A name \in DOMAIN BucketOf(nativeStyles, s) \ DOMAIN map[s] :
                 nativeStyles'[s][name] = nativeStyles[s][name]
       /\ \A s \in DOMAIN nativeStyles \ DOMAIN map : nativeStyles'[s] = nativeStyles[s]
       /\ applySharedStyles(nativeStyles', map') = nativeStyles']_vars

C7_Witness ==
  /\ last.op = "applySharedStyles"
  /\ CardTitle \in DOMAIN map
  /\ "color" \in DOMAIN map[CardTitle]
  /\ "inset" \notin DOMAIN map[CardTitle]
  /\ DOMAIN nativeStyles = {CardTitle, CardSubtitle}
  /\ nativeStyles[CardTitle] = ("inset" :> Arr(<<Num(5), Num(10)>>)) @@ map[CardTitle]
  /\ nativeStyles[CardSubtitle] = map[CardSubtitle]

(***************************************************************************)
(* C8 as claimed.  After handleSharedStyles calls with valid shorthand     *)
(* values and applySharedStyles, both mappings starting empty, no bucket   *)
(* of the Flat Style Mapping has a property named inset, margin, padding   *)
(* or gap.                                                                 *)
(***************************************************************************)
C8_NoShorthandName ==
  \A s \in DOMAIN nativeStyles : DOMAIN nativeStyles[s] \cap ShorthandNames = {}

(***************************************************************************)
(* C8 as amended.  ... no bucket of the Flat Style Mapping has a property  *)
(* named inset, and a property named margin, padding or gap holds a single *)
(* value (the bare form of a one-element margin/padding, of a number or a  *)
(* one-element gap), never a sequence.                                     *)
(***************************************************************************)
C8_NoUnexpandedShorthand ==
  \A s \in DOMAIN nativeStyles :
    /\ "inset" \notin DOMAIN nativeStyles[s]
    /\ \A name \in DOMAIN nativeStyles[s] \cap {"margin", "padding", "gap"} :
         /\ nativeStyles[s][name].t # "array"
         /\ name = "gap" => nativeStyles[s][name].t = "number"

C8_Witness ==
  /\ last.op = "applySharedStyles"
  /\ CardTitle \in DOMAIN nativeStyles
  /\ "margin" \in DOMAIN nativeStyles[CardTitle]
  /\ nativeStyles[CardTitle]["margin"] = Num(5)
  /\ nativeStyles[CardTitle]["left"] = Num(10)

(***************************************************************************)
(* C9.  assignFlatStyle and assignIgnoredKeyStyle set                      *)
(* nativeStyles[parentKey][key] to the value given, verbatim, creating the *)
(* bucket if absent; every other bucket and every other property of the    *)
(* bucket is unchanged, and so is the shared map.  The value is not        *)
(* classified or expanded, whatever the key.                               *)
(***************************************************************************)
C9_AssignFrame ==
  [][last'.op \in {"assignFlatStyle", "assignIgnoredKeyStyle"} =>
       LET pk == last'.parentKey
       IN /\ DOMAIN nativeStyles' = DOMAIN nativeStyles \cup {pk}
          /\ DOMAIN nativeStyles'[pk] = DOMAIN BucketOf(nativeStyles, pk) \cup {last'.key}
          /\ nativeStyles'[pk][last'.key] = last'.value
          /\ \A name \in DOMAIN BucketOf(nativeStyles, pk) \ {last'.key} :
               nativeStyles'[pk][name] = nativeStyles[pk][name]
          /\ \A s \in DOMAIN nativeStyles \ {pk} : nativeStyles'[s] = nativeStyles[s]
          /\ map' = map]_vars

C9_Witness ==
  /\ last = [op |-> "assignFlatStyle", parentKey |-> CardTitle, key |-> "inset",
             value |-> Arr(<<Num(5), Num(10)>>)]
  /\ DOMAIN nativeStyles = {CardTitle, CardSubtitle}
  /\ nativeStyles[CardTitle]["inset"] = Arr(<<Num(5), Num(10)>>)
  /\ nativeStyles[CardTitle]["top"] = Num(10)
  /\ nativeStyles[CardSubtitle]["top"] = Num(10)

(***************************************************************************)
(* C10.  A handleSharedStyles call with a shorthand that its expander      *)
(* rejects throws during the first selector: afterwards the first          *)
(* segment's scoped bucket exists and holds its previous content           *)
(* overwritten by the properties enumerated before the offending one, and  *)
(* no other bucket has been created or modified.                           *)
(***************************************************************************)
C10_FailureConfinedToFirstSelector ==
  [][(last'.op = "handleSharedStyles" /\ last'.value \in InvalidBlocks) =>
       LET k == ScopedOf(last'.parentKey, SegmentsOf(last'.key)[1])
           bad == Offending(last'.value)
           r == shorthandHandlers(last'.value[bad].prop, last'.value[bad].prop,
                                  last'.value[bad].val)
       IN /\ last'.outcome = [thrown |-> r.thrown]
          /\ DOMAIN map' = DOMAIN map \cup {k}
          /\ map'[k] = Overwritten(BucketOf(map, k), last'.value, bad - 1)
          /\ \A other \in DOMAIN map \ {k} : map'[other] = map[other]]_vars

C10_Witness ==
  /\ last.op = "handleSharedStyles"
  /\ last.key = TitleSubtitle
  /\ last.parentKey = Card
  /\ last.value = <<P("color", Red), P("margin", Str(<<"a", "b", "c">>)), P("top", Num(5))>>
  /\ "thrown" \in DOMAIN last.outcome
  /\ calls = 2
  /\ DOMAIN map = {TitleKey, Subtitle, CardTitle}
  /\ map[CardTitle] = [color |-> Red]
  /\ "gap" \in DOMAIN map[TitleKey]

=============================================================================
